---- MODULE Spec2Model ----
(***************************************************************************)
(* Model of the Nokia 5110 (PCD8544) LCD driver of CollisionSensor         *)
(* (Src/lcd.c): the SPI transport, the command/data framing, the cursor    *)
(* addressing, the glyph renderer and the readout formatter.               *)
(*                                                                         *)
(* A driver function is modelled as an operator from the machine state     *)
(* before the call (a record of the pin levels, the logs of what the call  *)
(* has done so far and the display controller's address counters) to the   *)
(* machine state after it.  Characters are their ASCII codes; a C string   *)
(* of sz characters is the sequence of the codes str[0..sz-1].             *)
(***************************************************************************)
EXTENDS Integers, Sequences, FiniteSets, TLC

VARIABLES
    pc,           \* "idle": no driver call made yet; "done": one call returned;
                  \* in SpecBus: the position inside LCD_SendByte
    call,         \* the driver call made: [fn |-> name, a |-> arguments]
    mode_select,  \* level of the D/C pin (0: command, 1: data)
    chip_select,  \* level of the chip-select pin (active low)
    gpio,         \* pin writes of the call, in order: <<pin, level>>
    bus,          \* bytes written to SPI2->DR by the call, in order, each
                  \* with the mode and chip-select levels at the write
    lcdX, lcdY,   \* display controller: column and row-group address counters
    lcdH,         \* display controller: 1 while the extended instruction set is selected
    writes,       \* display RAM cells written by the call: <<row, column, byte>>
    centered,     \* the (str, sz) arguments of the LCD_PrintStringCentered calls
    fullTempStr,  \* the buffer fullTempStr of LCD_PrintTempMeasurement, followed by
                  \* the memory cell behind it, as the call left them (<<>> if the
                  \* call has no such buffer)
    ret,          \* what the call returned ("void" for the LCD_ functions)
    TXE, BSY,     \* SPI2->SR: transmit buffer empty, bus busy
    pending,      \* SpecBus: the LCD_SendCommand / LCD_SendData calls the driver
                  \* function being run has still to make
    sending,      \* SpecBus: the argument c of the LCD_SendByte call in progress
    stalled,      \* SpecStall: the SPI peripheral has stopped
    obs           \* SpecBus: what the LCD_SendByte call in progress (or the last
                  \* one) has read and written: the flag values its two waits
                  \* read last, and how often it wrote SPI2->DR; and which of
                  \* LCD_SendCommand / LCD_SendData made the call

spiVars == <<TXE, BSY, pending, sending, stalled, obs>>

vars == <<pc, call, mode_select, chip_select, gpio, bus, lcdX, lcdY, lcdH,
          writes, centered, fullTempStr, ret, TXE, BSY, pending, sending, stalled,
          obs>>

---------------------------------------------------------------------------
(* Program constants *)

LCD_COLS == 84
LCD_MAX_X == 83
LCD_MAX_Y == 5
LCD_ROW_GROUPS == 6
SET_X == 128
SET_Y == 64
DIST_MAX == 4500
TEMP_MAX == 158
UINT8_MAX == 255
UINT16_MAX == 65535

(* Bounds of the checked input sets *)

MaxRowArg == 7       \* LCD_SetY / LCD_ClearRow rows are drawn from 0..MaxRowArg (and 255)
MaxColArg == 85      \* LCD_ClearRow start columns are drawn from 0..MaxColArg (and 255)
MaxStrLen == 3       \* every string over EdgeChars of at most this length is rendered
MaxRep == 18         \* and every run of one of EdgeChars of at most this length
MaxSmall == 110      \* every distance value 0..MaxSmall is formatted (and the values
                     \* around each power of ten and each range limit)
MaxUnits == 29       \* the longest unit text of a temperature readout (with 3
                     \* digits it fills the 32 cells of tempStr)

---------------------------------------------------------------------------
(* Integer helpers: C's operators on the widths the code uses *)

U8(n) == n % 256

\* C's integer division truncates toward zero
CDiv(a, b) == IF a >= 0 THEN a \div b ELSE -((-a) \div b)

RECURSIVE BitOr(_, _)
BitOr(a, b) ==
    IF a = 0 THEN b
    ELSE IF b = 0 THEN a
    ELSE (IF a % 2 = 1 \/ b % 2 = 1 THEN 1 ELSE 0) + 2 * BitOr(a \div 2, b \div 2)

---------------------------------------------------------------------------
(* The machine state a driver function transforms *)

Cur ==
    [mode_select |-> mode_select, chip_select |-> chip_select, gpio |-> gpio,
     bus |-> bus, lcdX |-> lcdX, lcdY |-> lcdY, lcdH |-> lcdH,
     writes |-> writes, centered |-> centered, fullTempStr |-> fullTempStr]

Apply(s) ==
    /\ mode_select' = s.mode_select
    /\ chip_select' = s.chip_select
    /\ gpio' = s.gpio
    /\ bus' = s.bus
    /\ lcdX' = s.lcdX
    /\ lcdY' = s.lcdY
    /\ lcdH' = s.lcdH
    /\ writes' = s.writes
    /\ centered' = s.centered
    /\ fullTempStr' = s.fullTempStr

\* TRUE of every machine state.  TLC computes an operator's argument only
\* when it is first used, inside whatever it is then evaluating; testing
\* Computed(s) between two steps makes it compute the first step's state s
\* before it enters the second, which bounds the depth of its evaluation.
\* The ELSE branch of such a test is never taken.
Computed(s) == s.chip_select \in {0, 1}

\* GPIOB->BRR = (1 << pin) drives the pin low, GPIOB->BSRR = (1 << pin) high
WritePin(s, pin, level) ==
    [s EXCEPT ![pin] = level, !.gpio = Append(@, <<pin, level>>)]

---------------------------------------------------------------------------
(* The display controller (PCD8544) at the other end of the bus: it        *)
(* samples the D/C line with each byte.  A data byte is stored at the      *)
(* address counters, which then advance by one column and wrap to the      *)
(* next row-group after column 83; a command byte of the basic             *)
(* instruction set with bit 7 set loads the column counter, with bit 6     *)
(* set the row counter; function-set bytes (0x20..0x27) select the         *)
(* instruction set with their bit 0.                                       *)

LcdCommand(s, c) ==
    IF c \div 8 = 4 THEN [s EXCEPT !.lcdH = c % 2]
    ELSE IF s.lcdH = 1 THEN s
    ELSE IF c >= 128 THEN (IF c - 128 <= 83 THEN [s EXCEPT !.lcdX = c - 128] ELSE s)
    ELSE IF c >= 64 THEN (IF c % 8 <= 5 THEN [s EXCEPT !.lcdY = c % 8] ELSE s)
    ELSE s

LcdData(s, c) ==
    [s EXCEPT !.writes = Append(@, <<s.lcdY, s.lcdX, c>>),
              !.lcdX = IF s.lcdX = 83 THEN 0 ELSE s.lcdX + 1,
              !.lcdY = IF s.lcdX = 83 THEN (s.lcdY + 1) % 6 ELSE s.lcdY]

LcdLatch(s, c) ==
    IF s.mode_select = 1 THEN LcdData(s, c) ELSE LcdCommand(s, c)

---------------------------------------------------------------------------
(* Transport and framing, one whole call at a time (the hardware raises    *)
(* TXE and drops BSY, so both waits of LCD_SendByte end).                  *)

LCD_SendByte(s, c) ==
    LET low == WritePin(s, "chip_select", 0)
        sent == LcdLatch([low EXCEPT !.bus = Append(@, [dc |-> low.mode_select,
                                                        cs |-> low.chip_select,
                                                        byte |-> U8(c)])], U8(c))
    IN  IF Computed(s) /\ Computed(low) /\ Computed(sent)
        THEN WritePin(sent, "chip_select", 1)
        ELSE s

LCD_SendCommand(s, c) == LCD_SendByte(WritePin(s, "mode_select", 0), c)

LCD_SendData(s, c) == LCD_SendByte(WritePin(s, "mode_select", 1), c)

---------------------------------------------------------------------------
(* Cursor addressing *)

LCD_SetX_clamp(s, x) ==
    LCD_SendCommand(s, BitOr(SET_X, IF x > LCD_MAX_X THEN LCD_MAX_X ELSE x))

LCD_SetX(s, x) ==
    IF x > LCD_MAX_X THEN s ELSE LCD_SendCommand(s, BitOr(SET_X, x))

LCD_SetY_clamp(s, y) ==
    LCD_SendCommand(s, BitOr(SET_Y, IF y > LCD_MAX_Y THEN LCD_MAX_Y ELSE y))

LCD_SetY(s, y) ==
    IF y > LCD_MAX_Y THEN s ELSE LCD_SendCommand(s, BitOr(SET_Y, y))

LCD_ResetX(s) == LCD_SetX(s, 0)

LCD_ResetY(s) == LCD_SetY(s, 0)

LCD_Reset(s) == LCD_ResetY(LCD_ResetX(s))

---------------------------------------------------------------------------
(* Display clear *)

\* for (int i = <i>; i < n; i++) LCD_SendData(0x00);
\* The iterations i..n-1 run in order; the range is split in halves, the
\* first computed before the second, only to keep the depth of TLC's
\* evaluation logarithmic in n.
RECURSIVE ZeroLoop(_, _, _)
ZeroLoop(s, i, n) ==
    IF i >= n THEN s
    ELSE IF n - i = 1 THEN LCD_SendData(s, 0)
    ELSE LET first == ZeroLoop(s, i, (i + n) \div 2)
         IN  IF Computed(first) THEN ZeroLoop(first, (i + n) \div 2, n) ELSE first

LCD_ClearDisplay_short(s) == ZeroLoop(LCD_Reset(s), 0, LCD_COLS * LCD_ROW_GROUPS - 1)

LCD_ClearDisplay(s) == ZeroLoop(LCD_Reset(s), 0, (84 * 48) \div 8)

LCD_ClearRow_full(s, y, x) == ZeroLoop(LCD_SetX(LCD_SetY(s, y), x), 0, LCD_COLS)

\* a call with a row or a column off the display does nothing
LCD_ClearRow_guarded(s, y, x) ==
    IF y > LCD_MAX_Y \/ x > LCD_MAX_X THEN s
    ELSE ZeroLoop(LCD_SetX(LCD_SetY(s, y), x), 0, LCD_COLS - x)

LCD_ClearRow(s, y, x) == ZeroLoop(LCD_SetX(LCD_SetY(s, y), x), 0, LCD_COLS - x)

---------------------------------------------------------------------------
(* Display setup.  COMMAND_EXTENDED_INSTRUCTION is a macro of lcd.h, which  *)
(* is not part of the source tree at hand: it is the controller's          *)
(* function-set byte with the extended instruction set selected (0x21).    *)
(* A low level on the display's reset line clears its address counters and *)
(* selects the basic instruction set.                                      *)

COMMAND_EXTENDED_INSTRUCTION == 33

LcdReset(s) == [s EXCEPT !.lcdX = 0, !.lcdY = 0, !.lcdH = 0]

LCD_Startup_reordered(s) ==
    LET c1 == LCD_SendCommand(s, COMMAND_EXTENDED_INSTRUCTION)
        c2 == LCD_SendCommand(c1, 191)
        c3 == LCD_SendCommand(c2, 20)
        c4 == LCD_SendCommand(c3, 4)
        c5 == LCD_SendCommand(c4, 32)
    IN  LCD_SendCommand(c5, 12)

LCD_Startup(s) ==
    LET c1 == LCD_SendCommand(s, COMMAND_EXTENDED_INSTRUCTION)
        c2 == LCD_SendCommand(c1, 191)   \* 0xbf
        c3 == LCD_SendCommand(c2, 4)     \* 0x04
        c4 == LCD_SendCommand(c3, 20)    \* 0x14
        c5 == LCD_SendCommand(c4, 32)    \* 0x20
    IN  LCD_SendCommand(c5, 12)          \* 0x0c

\* the reset pulse (reset low, then chip-select and reset high in one write
\* of BSRR), LCD_Startup, LCD_ClearDisplay; the SPI configuration in between
\* writes no pin and sends no byte
LCD_Setup(s) ==
    LET pulsed == LcdReset([s EXCEPT !.gpio = Append(@, <<"reset", 0>>)])
        released == [pulsed EXCEPT !.chip_select = 1,
                                   !.gpio = @ \o <<(<<"chip_select", 1>>), (<<"reset", 1>>)>>]
        started == LCD_Startup(released)
    IN  IF Computed(started) THEN LCD_ClearDisplay(started) ELSE started

---------------------------------------------------------------------------
(* The glyph table ascii_to_lcd of lcd.h: 5 column bytes per character,    *)
(* from the space character (32) on.  lcd.h is not part of the source      *)
(* tree at hand; the table is the usual 5x8 font of this display, in which *)
(* every combination of an empty / used first and last column occurs.      *)

Font == <<
    <<\H00, \H00, \H00, \H00, \H00>>,  \* 32 space
    <<\H00, \H00, \H5F, \H00, \H00>>,  \* 33 !
    <<\H00, \H07, \H00, \H07, \H00>>,  \* 34 double quote
    <<\H14, \H7F, \H14, \H7F, \H14>>,  \* 35 #
    <<\H24, \H2A, \H7F, \H2A, \H12>>,  \* 36 $
    <<\H23, \H13, \H08, \H64, \H62>>,  \* 37 %
    <<\H36, \H49, \H55, \H22, \H50>>,  \* 38 &
    <<\H00, \H05, \H03, \H00, \H00>>,  \* 39 '
    <<\H00, \H1C, \H22, \H41, \H00>>,  \* 40 (
    <<\H00, \H41, \H22, \H1C, \H00>>,  \* 41 )
    <<\H14, \H08, \H3E, \H08, \H14>>,  \* 42 *
    <<\H08, \H08, \H3E, \H08, \H08>>,  \* 43 +
    <<\H00, \H50, \H30, \H00, \H00>>,  \* 44 ,
    <<\H08, \H08, \H08, \H08, \H08>>,  \* 45 -
    <<\H00, \H60, \H60, \H00, \H00>>,  \* 46 .
    <<\H20, \H10, \H08, \H04, \H02>>,  \* 47 /
    <<\H3E, \H51, \H49, \H45, \H3E>>,  \* 48 0
    <<\H00, \H42, \H7F, \H40, \H00>>,  \* 49 1
    <<\H42, \H61, \H51, \H49, \H46>>,  \* 50 2
    <<\H21, \H41, \H45, \H4B, \H31>>,  \* 51 3
    <<\H18, \H14, \H12, \H7F, \H10>>,  \* 52 4
    <<\H27, \H45, \H45, \H45, \H39>>,  \* 53 5
    <<\H3C, \H4A, \H49, \H49, \H30>>,  \* 54 6
    <<\H01, \H71, \H09, \H05, \H03>>,  \* 55 7
    <<\H36, \H49, \H49, \H49, \H36>>,  \* 56 8
    <<\H06, \H49, \H49, \H29, \H1E>>,  \* 57 9
    <<\H00, \H36, \H36, \H00, \H00>>,  \* 58 :
    <<\H00, \H56, \H36, \H00, \H00>>,  \* 59 ;
    <<\H08, \H14, \H22, \H41, \H00>>,  \* 60 <
    <<\H14, \H14, \H14, \H14, \H14>>,  \* 61 =
    <<\H00, \H41, \H22, \H14, \H08>>,  \* 62 >
    <<\H02, \H01, \H51, \H09, \H06>>,  \* 63 ?
    <<\H32, \H49, \H79, \H41, \H3E>>,  \* 64 @
    <<\H7E, \H11, \H11, \H11, \H7E>>,  \* 65 A
    <<\H7F, \H49, \H49, \H49, \H36>>,  \* 66 B
    <<\H3E, \H41, \H41, \H41, \H22>>,  \* 67 C
    <<\H7F, \H41, \H41, \H22, \H1C>>,  \* 68 D
    <<\H7F, \H49, \H49, \H49, \H41>>,  \* 69 E
    <<\H7F, \H09, \H09, \H09, \H01>>,  \* 70 F
    <<\H3E, \H41, \H49, \H49, \H7A>>,  \* 71 G
    <<\H7F, \H08, \H08, \H08, \H7F>>,  \* 72 H
    <<\H00, \H41, \H7F, \H41, \H00>>,  \* 73 I
    <<\H20, \H40, \H41, \H3F, \H01>>,  \* 74 J
    <<\H7F, \H08, \H14, \H22, \H41>>,  \* 75 K
    <<\H7F, \H40, \H40, \H40, \H40>>,  \* 76 L
    <<\H7F, \H02, \H0C, \H02, \H7F>>,  \* 77 M
    <<\H7F, \H04, \H08, \H10, \H7F>>,  \* 78 N
    <<\H3E, \H41, \H41, \H41, \H3E>>,  \* 79 O
    <<\H7F, \H09, \H09, \H09, \H06>>,  \* 80 P
    <<\H3E, \H41, \H51, \H21, \H5E>>,  \* 81 Q
    <<\H7F, \H09, \H19, \H29, \H46>>,  \* 82 R
    <<\H46, \H49, \H49, \H49, \H31>>,  \* 83 S
    <<\H01, \H01, \H7F, \H01, \H01>>,  \* 84 T
    <<\H3F, \H40, \H40, \H40, \H3F>>,  \* 85 U
    <<\H1F, \H20, \H40, \H20, \H1F>>,  \* 86 V
    <<\H3F, \H40, \H38, \H40, \H3F>>,  \* 87 W
    <<\H63, \H14, \H08, \H14, \H63>>,  \* 88 X
    <<\H07, \H08, \H70, \H08, \H07>>,  \* 89 Y
    <<\H61, \H51, \H49, \H45, \H43>>,  \* 90 Z
    <<\H00, \H7F, \H41, \H41, \H00>>,  \* 91 [
    <<\H02, \H04, \H08, \H10, \H20>>,  \* 92 backslash
    <<\H00, \H41, \H41, \H7F, \H00>>,  \* 93 ]
    <<\H04, \H02, \H01, \H02, \H04>>,  \* 94 ^
    <<\H40, \H40, \H40, \H40, \H40>>,  \* 95 _
    <<\H00, \H01, \H02, \H04, \H00>>,  \* 96 `
    <<\H20, \H54, \H54, \H54, \H78>>,  \* 97 a
    <<\H7F, \H48, \H44, \H44, \H38>>,  \* 98 b
    <<\H38, \H44, \H44, \H44, \H20>>,  \* 99 c
    <<\H38, \H44, \H44, \H48, \H7F>>,  \* 100 d
    <<\H38, \H54, \H54, \H54, \H18>>,  \* 101 e
    <<\H08, \H7E, \H09, \H01, \H02>>,  \* 102 f
    <<\H0C, \H52, \H52, \H52, \H3E>>,  \* 103 g
    <<\H7F, \H08, \H04, \H04, \H78>>,  \* 104 h
    <<\H00, \H44, \H7D, \H40, \H00>>,  \* 105 i
    <<\H20, \H40, \H44, \H3D, \H00>>,  \* 106 j
    <<\H7F, \H10, \H28, \H44, \H00>>,  \* 107 k
    <<\H00, \H41, \H7F, \H40, \H00>>,  \* 108 l
    <<\H7C, \H04, \H18, \H04, \H78>>,  \* 109 m
    <<\H7C, \H08, \H04, \H04, \H78>>,  \* 110 n
    <<\H38, \H44, \H44, \H44, \H38>>,  \* 111 o
    <<\H7C, \H14, \H14, \H14, \H08>>,  \* 112 p
    <<\H08, \H14, \H14, \H18, \H7C>>,  \* 113 q
    <<\H7C, \H08, \H04, \H04, \H08>>,  \* 114 r
    <<\H48, \H54, \H54, \H54, \H20>>,  \* 115 s
    <<\H04, \H3F, \H44, \H40, \H20>>,  \* 116 t
    <<\H3C, \H40, \H40, \H20, \H7C>>,  \* 117 u
    <<\H1C, \H20, \H40, \H20, \H1C>>,  \* 118 v
    <<\H3C, \H40, \H30, \H40, \H3C>>,  \* 119 w
    <<\H44, \H28, \H10, \H28, \H44>>,  \* 120 x
    <<\H0C, \H50, \H50, \H50, \H3C>>,  \* 121 y
    <<\H44, \H64, \H54, \H4C, \H44>>   \* 122 z
>>

\* the characters that have a glyph: ' ' .. 'z'
FIRST_CHAR == 32
TabulatedChars == FIRST_CHAR..(FIRST_CHAR + Len(Font) - 1)

\* ascii_to_lcd[index][i]
ascii_to_lcd(index, i) == Font[index + 1][i + 1]

---------------------------------------------------------------------------
(* Glyph renderer *)

\* for (int i = <i>; i < 5; i++) LCD_SendData(ascii_to_lcd[c-' '][i]);
RECURSIVE GlyphLoop(_, _, _)
GlyphLoop(s, c, i) ==
    IF i < 5
    THEN LET sent == LCD_SendData(s, ascii_to_lcd(c - FIRST_CHAR, i))
         IN  IF Computed(sent) THEN GlyphLoop(sent, c, i + 1) ELSE sent
    ELSE s

LCD_PrintCharacter_sameEdge(s, c) ==
    LET index == c - FIRST_CHAR
        lead == IF ascii_to_lcd(index, 0) # 0 THEN LCD_SendData(s, 0) ELSE s
        cols == IF Computed(lead) THEN GlyphLoop(lead, c, 0) ELSE lead
    IN  IF ascii_to_lcd(index, 0) # 0 THEN LCD_SendData(cols, 0) ELSE cols

LCD_PrintCharacter_noSpacer(s, c) == GlyphLoop(s, c, 0)

LCD_PrintCharacter(s, c) ==
    LET index == c - FIRST_CHAR
        lead == IF ascii_to_lcd(index, 0) # 0 THEN LCD_SendData(s, 0) ELSE s
        cols == IF Computed(lead) THEN GlyphLoop(lead, c, 0) ELSE lead
    IN  IF ascii_to_lcd(index, 4) # 0 THEN LCD_SendData(cols, 0) ELSE cols

\* for (int i = <i>; i < sz; i++) LCD_PrintCharacter(str[i]);
\* (str[i] of the C string is str[i + 1] of the sequence; the range is split
\* as in ZeroLoop)
RECURSIVE PrintLoop(_, _, _, _)
PrintLoop(s, str, i, sz) ==
    IF i >= sz THEN s
    ELSE IF sz - i = 1 THEN LCD_PrintCharacter(s, str[i + 1])
    ELSE LET first == PrintLoop(s, str, i, (i + sz) \div 2)
         IN  IF Computed(first) THEN PrintLoop(first, str, (i + sz) \div 2, sz) ELSE first

LCD_PrintString(s, str, sz) == PrintLoop(s, str, 0, sz)

\* for (int i = <i>; i < sz; i++) { c = ascii_to_lcd[str[i]-' '];
\*     if (c[0] != 0x00) numCol++;  if (c[4] != 0x00) numCol++; }
\* numCol is a uint8_t: every increment is modulo 256.
RECURSIVE WidthLoop(_, _, _, _)
WidthLoop(numCol, str, i, sz) ==
    IF i >= sz THEN numCol
    ELSE IF sz - i = 1
    THEN LET index == str[i + 1] - FIRST_CHAR
             n1 == IF ascii_to_lcd(index, 0) # 0 THEN U8(numCol + 1) ELSE numCol
         IN  IF ascii_to_lcd(index, 4) # 0 THEN U8(n1 + 1) ELSE n1
    ELSE LET first == WidthLoop(numCol, str, i, (i + sz) \div 2)
         IN  IF first >= 0 THEN WidthLoop(first, str, (i + sz) \div 2, sz) ELSE first

LCD_PrintStringCentered_noEdges(s, str, sz) ==
    LET numCol == U8(sz * 5)
        noted == [s EXCEPT !.centered = Append(@, [str |-> SubSeq(str, 1, sz), sz |-> sz])]
        positioned == LCD_SetX(noted, U8(CDiv(84 - numCol, 2)))
    IN  IF Computed(positioned) THEN LCD_PrintString(positioned, str, sz) ELSE positioned

\* with the start column rounded down instead of toward zero
LCD_PrintStringCentered_floor(s, str, sz) ==
    LET numCol == WidthLoop(U8(sz * 5), str, 0, sz)
        noted == [s EXCEPT !.centered = Append(@, [str |-> SubSeq(str, 1, sz), sz |-> sz])]
        positioned == LCD_SetX(noted, U8((84 - numCol) \div 2))
    IN  IF Computed(positioned) THEN LCD_PrintString(positioned, str, sz) ELSE positioned

LCD_PrintStringCentered(s, str, sz) ==
    LET numCol == WidthLoop(U8(sz * 5), str, 0, sz)
        noted == [s EXCEPT !.centered = Append(@, [str |-> SubSeq(str, 1, sz), sz |-> sz])]
        positioned == LCD_SetX(noted, U8(CDiv(84 - numCol, 2)))
    IN  IF Computed(positioned) THEN LCD_PrintString(positioned, str, sz) ELSE positioned

\* the string literals of the driver
OUT_OF_RANGE == <<79, 85, 84, 32, 79, 70, 32, 82, 65, 78, 71, 69>>
DISTANCE == <<68, 73, 83, 84, 65, 78, 67, 69, 58>>
TEMPERATURE == <<84, 69, 77, 80, 69, 82, 65, 84, 85, 82, 69, 58>>

---------------------------------------------------------------------------
(* Readout formatter.  A char buffer of N cells is a sequence of length N: *)
(* buf[i] of the C code is buf[i + 1] here.  A cell the code has not       *)
(* written holds Uninit.                                                   *)

Uninit == "uninit"

\* TRUE of every buffer; used like Computed, for a buffer
Stored(buf) == Len(buf) >= 0

\* char distStr[32]; (not initialised)
CharBuf32 == [k \in 1..32 |-> Uninit]

\* do { buf[charsWritten++] = '0' + (dist % 10); dist /= 10; } while (dist > 0);
RECURSIVE DigitLoop(_, _, _)
DigitLoop(buf, charsWritten, dist) ==
    LET written == [buf EXCEPT ![charsWritten + 1] = 48 + (dist % 10)]
    IN  IF Stored(written) /\ dist \div 10 > 0
        THEN DigitLoop(written, U8(charsWritten + 1), dist \div 10)
        ELSE [buf |-> written, charsWritten |-> U8(charsWritten + 1)]

\* for (int i = 0, j = charsWritten-1; i < j; i++, j--) { swap buf[i], buf[j] }
RECURSIVE ReverseLoop(_, _, _)
ReverseLoop(buf, i, j) ==
    IF Stored(buf) /\ i < j
    THEN ReverseLoop([buf EXCEPT ![i + 1] = buf[j + 1], ![j + 1] = buf[i + 1]], i + 1, j - 1)
    ELSE buf

uintToStr_noReverse(buf, dist) ==
    LET d == DigitLoop(buf, 0, dist)
    IN  [buf |-> d.buf, ret |-> d.charsWritten]

\* returns the buffer as the call leaves it and the returned count
uintToStr(buf, dist) ==
    LET d == DigitLoop(buf, 0, dist)
    IN  [buf |-> ReverseLoop(d.buf, 0, d.charsWritten - 1), ret |-> d.charsWritten]

\* for (int i = 0, j = sz; i < units_sz; i++, j++) buf[j] = units[i];
RECURSIVE UnitsLoop(_, _, _, _, _)
UnitsLoop(buf, units, i, j, units_sz) ==
    IF Stored(buf) /\ i < units_sz
    THEN UnitsLoop([buf EXCEPT ![j + 1] = units[i + 1]], units, i + 1, j + 1, units_sz)
    ELSE buf

LCD_PrintMeasurement_ge(s, dist, units, units_sz) ==
    LET cleared == LCD_SetY(LCD_ClearRow(s, 2, 0), 2)
        conv == uintToStr(CharBuf32, dist)
        sz == conv.ret
        distStr == UnitsLoop(conv.buf, units, 0, sz, units_sz)
    IN  IF ~Computed(cleared) THEN cleared
        ELSE IF dist >= DIST_MAX
        THEN LCD_PrintStringCentered(cleared, OUT_OF_RANGE, 12)
        ELSE IF Stored(conv.buf) /\ Stored(distStr)
        THEN LCD_PrintStringCentered(cleared, distStr, U8(sz + units_sz))
        ELSE cleared

LCD_PrintMeasurement_noRow(s, dist, units, units_sz) ==
    LET cleared == LCD_ClearRow(s, 2, 0)
        conv == uintToStr(CharBuf32, dist)
        sz == conv.ret
        distStr == UnitsLoop(conv.buf, units, 0, sz, units_sz)
    IN  IF ~Computed(cleared) THEN cleared
        ELSE IF dist > DIST_MAX
        THEN LCD_PrintStringCentered(cleared, OUT_OF_RANGE, 12)
        ELSE IF Stored(conv.buf) /\ Stored(distStr)
        THEN LCD_PrintStringCentered(cleared, distStr, U8(sz + units_sz))
        ELSE cleared

LCD_PrintMeasurement(s, dist, units, units_sz) ==
    LET cleared == LCD_SetY(LCD_ClearRow(s, 2, 0), 2)
        conv == uintToStr(CharBuf32, dist)
        sz == conv.ret
        distStr == UnitsLoop(conv.buf, units, 0, sz, units_sz)
    IN  IF ~Computed(cleared) THEN cleared
        ELSE IF dist > DIST_MAX
        THEN LCD_PrintStringCentered(cleared, OUT_OF_RANGE, 12)
        ELSE IF Stored(conv.buf) /\ Stored(distStr)
        THEN LCD_PrintStringCentered(cleared, distStr, U8(sz + units_sz))
        ELSE cleared

\* for (; i < n; i++) dst[i] = src[i];   and
\* for (int j = 0; j < n; j++, i++) dst[i] = src[j];
RECURSIVE CopyLoop(_, _, _, _, _)
CopyLoop(dst, src, i, j, n) ==
    IF Stored(dst) /\ j < n
    THEN CopyLoop([dst EXCEPT ![i + 1] = src[j + 1]], src, i + 1, j + 1, n)
    ELSE dst

\* the gate as written at line 284: both operands name temp
TempOutOfRange(temp, temp2) == temp > TEMP_MAX \/ temp < 0 \/ temp > TEMP_MAX \/ temp < 0

\* what the memory cell behind fullTempStr holds before the call (no
\* character)
Adjacent == -1

\* the call wrote behind the end of fullTempStr
Overrun(buf) == Len(buf) = 65 /\ buf[65] # Adjacent

\* A write behind the end of fullTempStr is undefined behaviour; ub is what
\* comes of it: the cell keeps the character written ("kept"), or holds the
\* character ub.c by the time LCD_PrintStringCentered reads it ("other"),
\* or the call does not get as far as LCD_PrintStringCentered ("fault").
LCD_PrintTempMeasurement(s, temp, units, units_sz, temp2, units2, units_sz2, ub) ==
    LET cleared == LCD_SetY(LCD_ClearRow(s, 4, 0), 4)
        conv == uintToStr(CharBuf32, temp)
        conv2 == uintToStr(CharBuf32, temp2)
        sz == conv.ret
        sz2 == conv2.ret
        tempStr == UnitsLoop(conv.buf, units, 0, sz, units_sz)
        tempStr2 == UnitsLoop(conv2.buf, units2, 0, sz2, units_sz2)
        \* char fullTempStr[64] = "";  and the cell behind it
        zeroed == [k \in 1..65 |-> IF k <= 64 THEN 0 ELSE Adjacent]
        first == CopyLoop(zeroed, tempStr, 0, 0, sz + units_sz)
        i == sz + units_sz
        spaced == [first EXCEPT ![i + 1] = 32]
        copied == CopyLoop(spaced, tempStr2, i + 1, 0, sz2 + units_sz2)
        read == IF Overrun(copied) /\ ub.kind = "other"
                THEN [copied EXCEPT ![65] = ub.c]
                ELSE copied
        stored == [cleared EXCEPT !.fullTempStr = copied]
    IN  IF ~Computed(cleared) THEN cleared
        ELSE IF TempOutOfRange(temp, temp2)
        THEN LCD_PrintStringCentered(cleared, OUT_OF_RANGE, 12)
        ELSE IF ~(/\ Stored(conv.buf) /\ Stored(conv2.buf) /\ Stored(tempStr)
                  /\ Stored(tempStr2) /\ Stored(first) /\ Stored(copied)
                  /\ Computed(stored))
        THEN cleared
        ELSE IF Overrun(copied) /\ ub.kind = "fault"
        THEN stored
        ELSE LCD_PrintStringCentered(stored, read, U8(i + 1 + sz2 + units_sz2))

---------------------------------------------------------------------------
(* The driver calls as actions.  A behaviour is one call made in a state   *)
(* that earlier calls can have left: either level of the mode line, the    *)
(* address counters anywhere on the display, chip-select high.             *)

PreX == {0, 42, 83}
PreY == {0, 5}

NoObs == [txe |-> "unread", dr |-> 0, bsy |-> "unread", via |-> "none"]

InitIdle ==
    /\ pc = "idle"
    /\ call = [fn |-> "none", a |-> <<>>]
    /\ mode_select \in {0, 1}
    /\ chip_select = 1
    /\ gpio = <<>>
    /\ bus = <<>>
    /\ lcdX \in PreX
    /\ lcdY \in PreY
    /\ lcdH = 0
    /\ writes = <<>>
    /\ centered = <<>>
    /\ fullTempStr = <<>>
    /\ ret = "none"
    /\ TXE = 1
    /\ BSY = 0
    /\ pending = <<>>
    /\ sending = 0
    /\ stalled = FALSE
    /\ obs = NoObs

Returns(fn, a, s) ==
    /\ pc' = "done"
    /\ call' = [fn |-> fn, a |-> a]
    /\ ret' = "void"
    /\ Apply(s)
    /\ UNCHANGED spiVars

RowArgs == (0..MaxRowArg) \cup {UINT8_MAX}
ColArgs == (0..MaxColArg) \cup {UINT8_MAX}

CallSetX == pc = "idle" /\ \E x \in 0..UINT8_MAX : Returns("LCD_SetX", <<x>>, LCD_SetX(Cur, x))

CallSetY == pc = "idle" /\ \E y \in 0..UINT8_MAX : Returns("LCD_SetY", <<y>>, LCD_SetY(Cur, y))

CallClearDisplay == pc = "idle" /\ Returns("LCD_ClearDisplay", <<>>, LCD_ClearDisplay(Cur))

CallClearRow ==
    pc = "idle" /\ \E y \in RowArgs, x \in ColArgs :
        Returns("LCD_ClearRow", <<y, x>>, LCD_ClearRow(Cur, y, x))

CallSetup == pc = "idle" /\ Returns("LCD_Setup", <<>>, LCD_Setup(Cur))

Init == InitIdle

Next == CallSetX \/ CallSetY \/ CallClearDisplay \/ CallClearRow \/ CallSetup

Spec == Init /\ [][Next]_vars

---------------------------------------------------------------------------
(* The renderer's calls (SpecRender) *)

\* ' ', '0', '<', '>': one glyph for each combination of an empty / used
\* first and last column
EdgeChars == {32, 48, 60, 62}

RenderStrings ==
    UNION {[1..k -> EdgeChars] : k \in 0..MaxStrLen}
        \cup {[k \in 1..n |-> c] : c \in EdgeChars, n \in 1..MaxRep}
        \cup {<<c>> : c \in TabulatedChars}
        \cup {OUT_OF_RANGE, DISTANCE, TEMPERATURE}

\* strings wider than the display and wider than numCol can count: n - m
\* '0' (7 columns each) followed by m ' ' (5 columns each), of widths 252,
\* 250, 259, 257, 343, 341, 1785 and 1783
WideLens == {36, 37, 49, UINT8_MAX}
WideStrings ==
    {[k \in 1..n |-> IF k <= n - m THEN 48 ELSE 32] : n \in WideLens, m \in {0, 1}}

CallPrintCharacter ==
    pc = "idle" /\ \E c \in TabulatedChars :
        Returns("LCD_PrintCharacter", <<c>>, LCD_PrintCharacter(Cur, c))

CallPrintString ==
    pc = "idle" /\ \E str \in RenderStrings :
        Returns("LCD_PrintString", <<str, Len(str)>>, LCD_PrintString(Cur, str, Len(str)))

CallPrintStringCentered ==
    pc = "idle" /\ \E str \in RenderStrings \cup WideStrings :
        Returns("LCD_PrintStringCentered", <<str, Len(str)>>,
                LCD_PrintStringCentered(Cur, str, Len(str)))

NextRender == CallPrintCharacter \/ CallPrintString \/ CallPrintStringCentered

SpecRender == InitIdle /\ [][NextRender]_vars

---------------------------------------------------------------------------
(* The number conversion alone (SpecConv) and the readout calls (SpecMeas) *)

InitConv == InitIdle /\ mode_select = 1 /\ lcdX = 0 /\ lcdY = 0

CallUintToStr ==
    pc = "idle" /\ \E v \in 0..UINT16_MAX :
        /\ pc' = "done"
        /\ call' = [fn |-> "uintToStr", a |-> <<v>>]
        /\ ret' = uintToStr(CharBuf32, v)
        /\ UNCHANGED <<mode_select, chip_select, gpio, bus, lcdX, lcdY, lcdH,
                       writes, centered, fullTempStr>>
        /\ UNCHANGED spiVars

NextConv == CallUintToStr

SpecConv == InitConv /\ [][NextConv]_vars

\* the values 0..MaxSmall, and those around each power of ten, each range
\* limit and the top of uint16_t
Edges == {99, 100, 157, 158, 159, 999, 1000, 4499, 4500, 4501, 9999, 10000, 65535}
DistValues == (0..MaxSmall) \cup Edges
TempValues == {0, 9, 10, 157, 158, 159, 4500, 65535}

\* "", "mm", "cm", "F", "C", and unit texts that fill tempStr, tempStr2
\* (32 cells each) to the last cell or nearly
DistUnits == {<<>>, <<109, 109>>, <<99, 109>>}
TempUnits == {<<>>, <<70>>, <<67>>} \cup {[k \in 1..n |-> 67] : n \in (MaxUnits - 1)..MaxUnits}

Kept == [kind |-> "kept", c |-> 0]
UbOutcomes ==
    {Kept, [kind |-> "fault", c |-> 0]} \cup {[kind |-> "other", c |-> c] : c \in EdgeChars}

InitMeas == InitIdle /\ lcdX = 83 /\ lcdY = 5

CallPrintMeasurement ==
    pc = "idle" /\ \E dist \in DistValues, units \in DistUnits :
        Returns("LCD_PrintMeasurement", <<dist, units, Len(units)>>,
                LCD_PrintMeasurement(Cur, dist, units, Len(units)))

\* the calls in which each value's text fits its own buffer
CallPrintTempMeasurement ==
    pc = "idle" /\ \E temp \in TempValues, temp2 \in TempValues, units \in TempUnits, units2 \in TempUnits :
        /\ uintToStr(CharBuf32, temp).ret + Len(units) <= 32
        /\ uintToStr(CharBuf32, temp2).ret + Len(units2) <= 32
        /\ LET kept == LCD_PrintTempMeasurement(Cur, temp, units, Len(units),
                                                temp2, units2, Len(units2), Kept)
           IN  \E ub \in IF Overrun(kept.fullTempStr) THEN UbOutcomes ELSE {Kept} :
                /\ pc' = IF Overrun(kept.fullTempStr) /\ ub.kind = "fault" THEN "fault" ELSE "done"
                /\ call' = [fn |-> "LCD_PrintTempMeasurement",
                            a |-> <<temp, units, Len(units), temp2, units2, Len(units2)>>]
                /\ ret' = "void"
                /\ Apply(IF ub = Kept THEN kept
                         ELSE LCD_PrintTempMeasurement(Cur, temp, units, Len(units),
                                                       temp2, units2, Len(units2), ub))
                /\ UNCHANGED spiVars

NextMeas == CallPrintMeasurement \/ CallPrintTempMeasurement

SpecMeas == InitMeas /\ [][NextMeas]_vars

---------------------------------------------------------------------------
(* The transport step by step (SpecBus).  A driver function is run as the  *)
(* sequence of LCD_SendCommand / LCD_SendData calls it makes; each call    *)
(* sets the mode line and goes through the statements of LCD_SendByte,     *)
(* interleaved with the SPI peripheral: a write to DR clears TXE and sets  *)
(* BSY, the peripheral sets TXE when it has taken the byte into its shift  *)
(* register and clears BSY when the byte is out, and the display latches   *)
(* the byte then if its chip-select is low.                                *)

\* the driver functions run here, with their arguments
BusOps ==
    {[fn |-> "LCD_SetX", a |-> <<x>>] : x \in {0, 83, 84}}
        \cup {[fn |-> "LCD_SetY", a |-> <<y>>] : y \in {0, 5, 6}}
        \cup {[fn |-> "LCD_ClearRow", a |-> <<y, x>>] : y \in {1, 5}, x \in {82, 83}}
        \cup {[fn |-> "LCD_PrintCharacter", a |-> <<c>>] : c \in {60}}
        \cup {[fn |-> "LCD_Startup", a |-> <<>>]}

Fresh == [Cur EXCEPT !.gpio = <<>>, !.bus = <<>>, !.writes = <<>>, !.centered = <<>>]

Run(op) ==
    CASE op.fn = "LCD_SetX" -> LCD_SetX(Fresh, op.a[1])
      [] op.fn = "LCD_SetY" -> LCD_SetY(Fresh, op.a[1])
      [] op.fn = "LCD_ClearRow" -> LCD_ClearRow(Fresh, op.a[1], op.a[2])
      [] op.fn = "LCD_PrintCharacter" -> LCD_PrintCharacter(Fresh, op.a[1])
      [] op.fn = "LCD_Startup" -> LCD_Startup(Fresh)

\* the LCD_SendCommand (dc = 0) and LCD_SendData (dc = 1) calls of a run
CallsOf(r) == [k \in 1..Len(r.bus) |-> [dc |-> r.bus[k].dc, byte |-> r.bus[k].byte]]

InitBus == InitIdle /\ lcdX = 0 /\ lcdY = 0

\* a driver function is called: nothing of the previous one is left to send
BusCall ==
    /\ pc = "idle"
    /\ pending = <<>>
    /\ \E op \in BusOps :
        /\ call' = op
        /\ pending' = CallsOf(Run(op))
    /\ gpio' = <<>>
    /\ bus' = <<>>
    /\ writes' = <<>>
    /\ UNCHANGED <<pc, mode_select, chip_select, lcdX, lcdY, lcdH, centered, fullTempStr, ret,
                   TXE, BSY, sending, obs, stalled>>

\* LCD_SendCommand / LCD_SendData: the mode line is written, LCD_SendByte entered
EnterSend(dc) ==
    /\ pc = "idle"
    /\ pending # <<>>
    /\ Head(pending).dc = dc
    /\ mode_select' = dc
    /\ gpio' = Append(gpio, <<"mode_select", dc>>)
    /\ sending' = Head(pending).byte
    /\ pending' = Tail(pending)
    /\ obs' = [NoObs EXCEPT !.via = IF dc = 0 THEN "LCD_SendCommand" ELSE "LCD_SendData"]
    /\ pc' = "waitTXE"
    /\ UNCHANGED <<call, chip_select, bus, lcdX, lcdY, lcdH, writes, centered, fullTempStr, ret,
                   TXE, BSY, stalled>>

\* LCD_SendData without its write of the mode line
SendDataStep_nomode ==
    /\ pc = "idle"
    /\ pending # <<>>
    /\ Head(pending).dc = 1
    /\ sending' = Head(pending).byte
    /\ pending' = Tail(pending)
    /\ obs' = [NoObs EXCEPT !.via = "LCD_SendData"]
    /\ pc' = "waitTXE"
    /\ UNCHANGED <<call, mode_select, chip_select, gpio, bus, lcdX, lcdY, lcdH, writes,
                   centered, fullTempStr, ret, TXE, BSY, stalled>>

SendCommandStep == EnterSend(0)

SendDataStep == EnterSend(1)

\* while((SPI2->SR & SPI_SR_TXE_Msk) != SPI_SR_TXE_Msk);  left once TXE reads set
SB_WaitTXE_nowait ==
    /\ pc = "waitTXE"
    /\ obs' = [obs EXCEPT !.txe = IF TXE = 1 THEN "set" ELSE "clear"]
    /\ pc' = "csLow"
    /\ UNCHANGED <<call, mode_select, chip_select, gpio, bus, lcdX, lcdY, lcdH,
                   writes, centered, fullTempStr, ret, TXE, BSY, pending, sending, stalled>>

SB_WaitTXE ==
    /\ pc = "waitTXE"
    /\ TXE = 1
    /\ obs' = [obs EXCEPT !.txe = IF TXE = 1 THEN "set" ELSE "clear"]
    /\ pc' = "csLow"
    /\ UNCHANGED <<call, mode_select, chip_select, gpio, bus, lcdX, lcdY, lcdH,
                   writes, centered, fullTempStr, ret, TXE, BSY, pending, sending, stalled>>

\* GPIOB->BRR = (1 << thisScreen->chip_select);
SB_SelectChip ==
    /\ pc = "csLow"
    /\ chip_select' = 0
    /\ gpio' = Append(gpio, <<"chip_select", 0>>)
    /\ pc' = "writeDR"
    /\ UNCHANGED <<call, mode_select, bus, lcdX, lcdY, lcdH, writes, centered, fullTempStr, ret,
                   TXE, BSY, pending, sending, obs, stalled>>

\* *(uint8_t *)&(SPI2->DR) = c;
SB_WriteDR ==
    /\ pc = "writeDR"
    /\ bus' = Append(bus, [dc |-> mode_select, cs |-> chip_select, byte |-> U8(sending)])
    /\ obs' = [obs EXCEPT !.dr = @ + 1]
    /\ TXE' = 0
    /\ BSY' = 1
    /\ pc' = "waitBSY"
    /\ UNCHANGED <<call, mode_select, chip_select, gpio, lcdX, lcdY, lcdH, writes,
                   centered, fullTempStr, ret, pending, sending, stalled>>

\* while((SPI2->SR & SPI_SR_BSY_Msk) == SPI_SR_BSY_Msk);  left once BSY reads clear
SB_WaitBSY_nowait ==
    /\ pc = "waitBSY"
    /\ obs' = [obs EXCEPT !.bsy = IF BSY = 0 THEN "clear" ELSE "set"]
    /\ pc' = "csHigh"
    /\ UNCHANGED <<call, mode_select, chip_select, gpio, bus, lcdX, lcdY, lcdH,
                   writes, centered, fullTempStr, ret, TXE, BSY, pending, sending, stalled>>

SB_WaitBSY ==
    /\ pc = "waitBSY"
    /\ BSY = 0
    /\ obs' = [obs EXCEPT !.bsy = IF BSY = 0 THEN "clear" ELSE "set"]
    /\ pc' = "csHigh"
    /\ UNCHANGED <<call, mode_select, chip_select, gpio, bus, lcdX, lcdY, lcdH,
                   writes, centered, fullTempStr, ret, TXE, BSY, pending, sending, stalled>>

\* GPIOB->BSRR = (1 << thisScreen->chip_select);  and LCD_SendByte returns
SB_DeselectChip ==
    /\ pc = "csHigh"
    /\ chip_select' = 1
    /\ gpio' = Append(gpio, <<"chip_select", 1>>)
    /\ pc' = "idle"
    /\ UNCHANGED <<call, mode_select, bus, lcdX, lcdY, lcdH, writes, centered, fullTempStr, ret,
                   TXE, BSY, pending, sending, obs, stalled>>

\* the peripheral takes the byte from DR into its shift register
HwShift ==
    /\ ~stalled
    /\ TXE = 0
    /\ TXE' = 1
    /\ UNCHANGED <<pc, call, mode_select, chip_select, gpio, bus, lcdX, lcdY, lcdH,
                   writes, centered, fullTempStr, ret, BSY, pending, sending, obs, stalled>>

\* the last bit is out: the display, if selected, latches the byte with the
\* level of its D/C line
HwDone ==
    /\ ~stalled
    /\ BSY = 1
    /\ TXE = 1
    /\ BSY' = 0
    /\ LET latched == IF chip_select = 0 THEN LcdLatch(Cur, U8(sending)) ELSE Cur
       IN  /\ lcdX' = latched.lcdX
           /\ lcdY' = latched.lcdY
           /\ lcdH' = latched.lcdH
           /\ writes' = latched.writes
    /\ UNCHANGED <<pc, call, mode_select, chip_select, gpio, bus, centered, fullTempStr, ret,
                   TXE, pending, sending, obs, stalled>>

NextBus ==
    \/ BusCall
    \/ SendCommandStep
    \/ SendDataStep
    \/ SB_WaitTXE
    \/ SB_SelectChip
    \/ SB_WriteDR
    \/ SB_WaitBSY
    \/ SB_DeselectChip
    \/ HwShift
    \/ HwDone

SpecBus == InitBus /\ [][NextBus]_vars

---------------------------------------------------------------------------
(* The transport on a bus that can stall (SpecStall): the peripheral may   *)
(* stop at any time, with the transmit buffer taken as full or as it was;  *)
(* from then on it sets and clears no flag.  The processor executes the    *)
(* driver's next statement whenever there is one (weak fairness of each    *)
(* step), and a peripheral that has not stopped eventually takes the byte  *)
(* and eventually ends the transfer (weak fairness of HwShift and HwDone). *)

HwStall ==
    /\ ~stalled
    /\ stalled' = TRUE
    /\ TXE' \in {0, TXE}
    /\ UNCHANGED <<pc, call, mode_select, chip_select, gpio, bus, lcdX, lcdY, lcdH,
                   writes, centered, fullTempStr, ret, BSY, pending, sending, obs>>

NextStall ==
    \/ BusCall
    \/ SendCommandStep
    \/ SendDataStep
    \/ SB_WaitTXE
    \/ SB_SelectChip
    \/ SB_WriteDR
    \/ SB_WaitBSY
    \/ SB_DeselectChip
    \/ HwShift
    \/ HwDone
    \/ HwStall

SpecStall ==
    /\ InitBus
    /\ [][NextStall]_vars
    /\ WF_vars(SendCommandStep) /\ WF_vars(SendDataStep)
    /\ WF_vars(SB_WaitTXE) /\ WF_vars(SB_SelectChip) /\ WF_vars(SB_WriteDR)
    /\ WF_vars(SB_WaitBSY) /\ WF_vars(SB_DeselectChip)
    /\ WF_vars(HwShift) /\ WF_vars(HwDone)

---------------------------------------------------------------------------
(* Claims about the cursor addressing and the display clear (Spec) *)

Cmd(c) == [dc |-> 0, cs |-> 0, byte |-> c]
Dat(c) == [dc |-> 1, cs |-> 0, byte |-> c]
IsData(e) == e.dc = 1

Returned(fn) == pc = "done" /\ call.fn = fn

\* C6: LCD_SetX(x) with x in 0..83 sends exactly one byte, as a command
\* (mode line low), of value 0x80 | x (= 128 + x); with x in 84..255 it
\* sends no byte and writes no pin.
C6_SetColumn ==
    Returned("LCD_SetX") =>
        LET x == call.a[1]
        IN  IF x <= 83
            THEN bus = <<Cmd(128 + x)>> /\ mode_select = 0
            ELSE bus = <<>> /\ gpio = <<>>

\* C6 witness: LCD_SetX(84) returned with the mode line still high and nothing sent
C6_Witness ==
    Returned("LCD_SetX") /\ call.a[1] = 84 /\ bus = <<>> /\ mode_select = 1

\* C7: LCD_SetY(y) with y in 0..5 sends exactly one byte, as a command
\* (mode line low), of value 0x40 | y (= 64 + y); with y in 6..255 it sends
\* no byte and writes no pin.
C7_SetRow ==
    Returned("LCD_SetY") =>
        LET y == call.a[1]
        IN  IF y <= 5
            THEN bus = <<Cmd(64 + y)>> /\ mode_select = 0
            ELSE bus = <<>> /\ gpio = <<>>

\* C7 witness: LCD_SetY(6) returned with the mode line still high and nothing sent
C7_Witness ==
    Returned("LCD_SetY") /\ call.a[1] = 6 /\ bus = <<>> /\ mode_select = 1

\* C8: the byte stream of one LCD_ClearDisplay call is the command 0x80,
\* the command 0x40, then exactly 504 data bytes 0x00, and nothing else.
C8_ClearDisplay ==
    Returned("LCD_ClearDisplay") =>
        /\ Len(bus) = 2 + 504
        /\ bus[1] = Cmd(128)
        /\ bus[2] = Cmd(64)
        /\ \A k \in 3..Len(bus) : bus[k] = Dat(0)

\* C8 witness: LCD_ClearDisplay returned and the display stored 504 bytes
C8_Witness ==
    Returned("LCD_ClearDisplay") /\ Len(writes) = 504 /\ Len(bus) = 506

\* C9: LCD_ClearRow(row, startColumn) with row in 0..5 and startColumn in
\* 0..83 sends the command 0x40 | row, the command 0x80 | startColumn, then
\* exactly 84 - startColumn data bytes 0x00; the display stores them on
\* columns startColumn..83 of that row and writes no other cell.
C9_ClearRow ==
    (Returned("LCD_ClearRow") /\ call.a[1] <= 5 /\ call.a[2] <= 83) =>
        LET row == call.a[1]
            col == call.a[2]
        IN  /\ bus = <<Cmd(64 + row), Cmd(128 + col)>> \o [k \in 1..(84 - col) |-> Dat(0)]
            /\ writes = [k \in 1..(84 - col) |-> <<row, col + k - 1, 0>>]

\* C9 witness: LCD_ClearRow(5, 80) returned having written columns 80..83 of row 5
C9_Witness ==
    /\ Returned("LCD_ClearRow") /\ call.a = <<5, 80>>
    /\ Len(writes) = 4 /\ writes[4] = <<5, 83, 0>>

\* C19: LCD_ClearRow(row, startColumn) with row > 5 and startColumn in
\* 0..83 sends no row command but still the column command
\* 0x80 | startColumn and 84 - startColumn data bytes 0x00, which blank the
\* row the display is on; with startColumn >= 84 it sends no column command
\* and no data byte, only the row command 0x40 | row when row <= 5.
C19_ClearRowOutOfRange ==
    [][(pc' = "done" /\ call'.fn = "LCD_ClearRow") =>
        LET row == call'.a[1]
            col == call'.a[2]
        IN  /\ (row > 5 /\ col <= 83 =>
                    /\ bus' = <<Cmd(128 + col)>> \o [k \in 1..(84 - col) |-> Dat(0)]
                    /\ writes' = [k \in 1..(84 - col) |-> <<lcdY, col + k - 1, 0>>])
            /\ (col >= 84 =>
                    /\ bus' = (IF row <= 5 THEN <<Cmd(64 + row)>> ELSE <<>>)
                    /\ writes' = <<>>)
      ]_vars

\* C19 witness: LCD_ClearRow(6, 80) returned having sent the column command
\* 0xD0 and blanked columns 80..83 of row 5, the row the display was on
C19_Witness ==
    /\ Returned("LCD_ClearRow") /\ call.a = <<6, 80>>
    /\ bus[1] = Cmd(128 + 80) /\ Len(bus) = 5
    /\ writes = <<(<<5, 80, 0>>), (<<5, 81, 0>>), (<<5, 82, 0>>), (<<5, 83, 0>>)>>

---------------------------------------------------------------------------
(* Claims about the glyph renderer (SpecRender) *)

Glyph(c) == Font[c - 31]

\* the rendered width of a string: 5 columns per character, one more for
\* each used first column and one more for each used last column
RenderedWidth(str) ==
    5 * Len(str)
        + Cardinality({i \in 1..Len(str) : Glyph(str[i])[1] # 0})
        + Cardinality({i \in 1..Len(str) : Glyph(str[i])[5] # 0})

\* C3: LCD_PrintStringCentered of a string of rendered width w <= 84 issues
\* exactly one column command, before any glyph data byte, with argument
\* start = floor((84 - w) / 2), and start + w <= 84.
C3_Centering ==
    (Returned("LCD_PrintStringCentered") /\ RenderedWidth(call.a[1]) <= 84) =>
        LET w == RenderedWidth(call.a[1])
            start == (84 - w) \div 2
        IN  /\ Len(bus) >= 1
            /\ bus[1] = Cmd(128 + start)
            /\ \A k \in 2..Len(bus) : bus[k].dc = 1
            /\ start + w <= 84

\* C3 witness: twelve '0' (width exactly 84) centered: column command 0x80,
\* 84 columns stored
C3_Witness ==
    /\ Returned("LCD_PrintStringCentered")
    /\ call.a[1] = [k \in 1..12 |-> 48]
    /\ bus[1] = Cmd(128)
    /\ Len(writes) = 84

\* C5: LCD_PrintCharacter(c), c tabulated, emits as data bytes and in this
\* order: one 0x00 iff the glyph's first column is non-zero, the glyph's 5
\* columns, one 0x00 iff the glyph's last column is non-zero; 5, 6 or 7
\* data bytes and no command byte.
C5_GlyphSpacer ==
    Returned("LCD_PrintCharacter") =>
        LET g == Glyph(call.a[1])
            lead == IF g[1] # 0 THEN <<Dat(0)>> ELSE <<>>
            trail == IF g[5] # 0 THEN <<Dat(0)>> ELSE <<>>
        IN  /\ bus = lead \o [i \in 1..5 |-> Dat(g[i])] \o trail
            /\ Len(bus) \in {5, 6, 7}

\* C5 witness: '<' (first column used, last column empty) printed with a
\* leading spacer only
C5_Witness ==
    /\ Returned("LCD_PrintCharacter") /\ call.a[1] = 60
    /\ Len(bus) = 6 /\ bus[1] = Dat(0) /\ bus[2] = Dat(8)

\* C13: LCD_PrintStringCentered of a string of tabulated characters whose
\* width w is <= 84 emits exactly w data bytes (the sum of what
\* LCD_PrintCharacter emits per character); the display, advancing one
\* column per data byte, stores them on columns start..start+w-1 of the
\* row it is on, start = (84 - w) / 2, the last one on a column <= 83.
C13_InsideDisplay ==
    (Returned("LCD_PrintStringCentered") /\ RenderedWidth(call.a[1]) <= 84) =>
        LET w == RenderedWidth(call.a[1])
            start == (84 - w) \div 2
        IN  /\ Len(SelectSeq(bus, IsData)) = w
            /\ Len(writes) = w
            /\ \A k \in 1..w : writes[k][1] = writes[1][1] /\ writes[k][2] = start + k - 1
            /\ (w > 0 => writes[w][2] <= 83)

\* C13 witness: "OUT OF RANGE" (width 80) centered: 80 bytes stored on
\* columns 2..81 of one row
C13_Witness ==
    /\ Returned("LCD_PrintStringCentered") /\ call.a[1] = OUT_OF_RANGE
    /\ Len(writes) = 80
    /\ writes[1][2] = 2 /\ writes[80][2] = 81 /\ writes[80][1] = writes[1][1]

---------------------------------------------------------------------------
(* Claims about the number conversion (SpecConv) and the readouts (SpecMeas) *)

NumDigits(v) ==
    IF v < 10 THEN 1 ELSE IF v < 100 THEN 2 ELSE IF v < 1000 THEN 3
    ELSE IF v < 10000 THEN 4 ELSE 5

\* the number a string of decimal digit characters denotes
RECURSIVE ParseDecimal(_)
ParseDecimal(str) ==
    IF str = <<>> THEN 0
    ELSE 10 * ParseDecimal(SubSeq(str, 1, Len(str) - 1)) + (str[Len(str)] - 48)

\* the decimal digits of v, most significant first
Decimal(v) == [k \in 1..NumDigits(v) |-> 48 + ((v \div (10 ^ (NumDigits(v) - k))) % 10)]

\* the data bytes LCD_PrintCharacter is to emit for each character of a string
RECURSIVE GlyphBytes(_)
GlyphBytes(str) ==
    IF str = <<>> THEN <<>>
    ELSE IF Len(str) = 1
    THEN LET g == Glyph(Head(str))
         IN  (IF g[1] # 0 THEN <<0>> ELSE <<>>) \o g \o (IF g[5] # 0 THEN <<0>> ELSE <<>>)
    ELSE GlyphBytes(SubSeq(str, 1, Len(str) \div 2))
            \o GlyphBytes(SubSeq(str, Len(str) \div 2 + 1, Len(str)))

\* the bytes the display stored after the first n
StoredAfter(n) == [k \in 1..(Len(writes) - n) |-> writes[n + k][3]]

\* C4: for every v in 0..65535 uintToStr returns the number n of decimal
\* digits of v (1 for 0, at most 5) and leaves in buf[0..n-1] the digits of
\* v, most significant first, without a leading zero unless v = 0: parsing
\* them as a decimal number yields v; 0 gives ("0", 1), 4500 ("4500", 4).
C4_RoundTrip ==
    Returned("uintToStr") =>
        LET v == call.a[1]
            n == ret.ret
            text == SubSeq(ret.buf, 1, n)
        IN  /\ n = NumDigits(v)
            /\ n <= 5
            /\ \A k \in 1..n : text[k] \in 48..57
            /\ (v # 0 => text[1] # 48)
            /\ ParseDecimal(text) = v
            /\ (v = 0 => text = <<48>>)
            /\ (v = 4500 => text = <<52, 53, 48, 48>>)

\* C4 witness: uintToStr(65535) returned 5 and "65535"
C4_Witness ==
    /\ Returned("uintToStr") /\ call.a[1] = 65535
    /\ ret.ret = 5 /\ SubSeq(ret.buf, 1, 5) = <<54, 53, 53, 51, 53>>

\* C2: LCD_PrintMeasurement passes to the centered renderer exactly
\* "OUT OF RANGE" (12 characters) when the value is > 4500, whatever the
\* unit text, and the decimal digits of the value followed by the unit text
\* (length digits + unit length) when it is in 0..4500; nothing but that
\* text is rendered after the row clear.
C2_SingleMeasurement ==
    Returned("LCD_PrintMeasurement") =>
        LET v == call.a[1]
            text == IF v > 4500 THEN OUT_OF_RANGE ELSE Decimal(v) \o call.a[2]
        IN  /\ centered = <<[str |-> text, sz |-> Len(text)]>>
            /\ (v > 4500 => Len(text) = 12)
            /\ (v <= 4500 => Len(text) = NumDigits(v) + call.a[3])
            /\ StoredAfter(84) = GlyphBytes(text)

\* C2 witness: LCD_PrintMeasurement(4500, "mm", 2) rendered "4500mm"
C2_Witness ==
    /\ Returned("LCD_PrintMeasurement") /\ call.a[1] = 4500 /\ call.a[2] = <<109, 109>>
    /\ centered = <<[str |-> <<52, 53, 48, 48, 109, 109>>, sz |-> 6]>>

\* C1: LCD_PrintTempMeasurement with at least one of the two values above
\* 158 renders, after the row clear, only "OUT OF RANGE" (12 characters,
\* centered) and no digit of either value.
C1_DualOutOfRange ==
    (Returned("LCD_PrintTempMeasurement") /\ (call.a[1] > 158 \/ call.a[4] > 158)) =>
        /\ centered = <<[str |-> OUT_OF_RANGE, sz |-> 12]>>
        /\ StoredAfter(84) = GlyphBytes(OUT_OF_RANGE)

\* C16: on both paths the byte stream of LCD_PrintMeasurement is: the row
\* command for row 2, the column command 0x80, exactly 84 data bytes 0x00,
\* the row command for row 2 again, the centering column command, then the
\* glyph data bytes of the text; the display, whose address wraps to the
\* next row behind column 83, stores the 84 zeros on row 2 and, the row
\* having been addressed again, the text on row 2 from the centering
\* column on.
C16_ClearThenPrint ==
    Returned("LCD_PrintMeasurement") =>
        LET v == call.a[1]
            text == IF v > 4500 THEN OUT_OF_RANGE ELSE Decimal(v) \o call.a[2]
            glyphs == GlyphBytes(text)
            start == (84 - RenderedWidth(text)) \div 2
        IN  /\ bus = <<Cmd(64 + 2), Cmd(128)>> \o [k \in 1..84 |-> Dat(0)]
                        \o <<Cmd(64 + 2), Cmd(128 + start)>>
                        \o [k \in 1..Len(glyphs) |-> Dat(glyphs[k])]
            /\ SubSeq(writes, 1, 84) = [k \in 1..84 |-> <<2, k - 1, 0>>]
            /\ SubSeq(writes, 85, Len(writes))
                    = [k \in 1..Len(glyphs) |-> <<2, start + k - 1, glyphs[k]>>]

\* C16 witness: LCD_PrintMeasurement(4501, ..) cleared row 2, addressed
\* row 2 again and column 2, and the display stored the first column of
\* "OUT OF RANGE" on row 2, column 2
C16_Witness ==
    /\ Returned("LCD_PrintMeasurement") /\ call.a[1] = 4501
    /\ bus[87] = Cmd(64 + 2) /\ bus[88] = Cmd(128 + 2)
    /\ writes[84] = <<2, 83, 0>> /\ writes[85] = <<2, 2, 0>>

\* LCD_PrintTempMeasurement was called and is over (returned or not)
TempCallOver == pc # "idle" /\ call.fn = "LCD_PrintTempMeasurement"

\* C14: in every LCD_PrintTempMeasurement call on the in-range path in which
\* each value's digits plus its unit text fit the value's 32-character
\* buffer, every write into fullTempStr has an index in 0..63: nothing is
\* written behind the buffer, digits + unit length + 1 + digits + unit
\* length <= 64.
C14_BufferCapacity ==
    (/\ TempCallOver
     /\ fullTempStr # <<>>
     /\ NumDigits(call.a[1]) + call.a[3] <= 32
     /\ NumDigits(call.a[4]) + call.a[6] <= 32) =>
        /\ ~Overrun(fullTempStr)
        /\ NumDigits(call.a[1]) + call.a[3] + 1 + NumDigits(call.a[4]) + call.a[6] <= 64

\* C15: when LCD_PrintTempMeasurement does not take the "OUT OF RANGE"
\* fallback, the text it passes to the centered renderer is exactly the
\* decimal digits of the first value, its unit text, one space, the decimal
\* digits of the second value, its unit text, and the length passed is the
\* sum of their lengths; that text is what is rendered after the row clear.
C15_DualComposition ==
    (TempCallOver /\ centered # <<[str |-> OUT_OF_RANGE, sz |-> 12]>>) =>
        LET text == Decimal(call.a[1]) \o call.a[2] \o <<32>>
                        \o Decimal(call.a[4]) \o call.a[5]
        IN  /\ centered = <<[str |-> text, sz |-> Len(text)]>>
            /\ Len(text) = NumDigits(call.a[1]) + call.a[3] + 1
                                + NumDigits(call.a[4]) + call.a[6]
            /\ StoredAfter(84) = GlyphBytes(text)

\* the composition where fullTempStr holds the whole text
DualCompositionWithinBuffer == Overrun(fullTempStr) \/ C15_DualComposition

---------------------------------------------------------------------------
(* Strings wider than the display (SpecRender) *)

IsCommand(e) == e.dc = 0

\* C18: LCD_PrintStringCentered of any string of 0..255 tabulated
\* characters, numCol being the rendered width modulo 256 (so the rendered
\* width itself only while that is <= 255): if numCol >= 86 no column
\* command is sent and the text starts on the column the display is on; if
\* numCol = 85 the column command is 0x80; if numCol <= 84 it is
\* 0x80 | (84 - numCol) / 2; in every case all glyph data bytes of the
\* string are sent, and nothing else.
C18_OverWide ==
    [][(pc' = "done" /\ call'.fn = "LCD_PrintStringCentered") =>
        LET str == call'.a[1]
            numCol == RenderedWidth(str) % 256
            glyphs == GlyphBytes(str)
            commands == SelectSeq(bus', IsCommand)
            data == SelectSeq(bus', IsData)
        IN  /\ Len(str) \in 0..255
            /\ (RenderedWidth(str) <= 255 => numCol = RenderedWidth(str))
            /\ (numCol >= 86 =>
                    /\ commands = <<>>
                    /\ (glyphs # <<>> => writes'[1] = <<lcdY, lcdX, glyphs[1]>>))
            /\ (numCol = 85 => commands = <<Cmd(128)>> /\ bus'[1] = Cmd(128))
            /\ (numCol <= 84 =>
                    /\ commands = <<Cmd(128 + (84 - numCol) \div 2)>>
                    /\ bus'[1] = commands[1])
            /\ data = [k \in 1..Len(glyphs) |-> Dat(glyphs[k])]
            /\ [k \in 1..Len(writes') |-> writes'[k][3]] = glyphs
      ]_vars

\* C18 witness: 48 '0' and one ' ' (rendered width 341, numCol 85) centered:
\* column command 0x80, then all 341 glyph bytes
C18_Witness ==
    /\ Returned("LCD_PrintStringCentered")
    /\ call.a[1] = [k \in 1..49 |-> IF k <= 48 THEN 48 ELSE 32]
    /\ bus[1] = Cmd(128) /\ Len(bus) = 342 /\ Len(writes) = 341

---------------------------------------------------------------------------
(* Claims about the transport (SpecBus) *)

InSendByte == pc \in {"waitTXE", "csLow", "writeDR", "waitBSY", "csHigh"}

\* C10: in every LCD_SendByte call chip-select is driven low only after TXE
\* has been read set, exactly one write to the data register happens and
\* it happens while chip-select is low, chip-select is driven high only
\* after BSY has been read clear, and chip-select is high when the call
\* returns: chip-select is high whenever no LCD_SendByte call is in progress.
C10_Transaction ==
    /\ (chip_select = 0 => pc \in {"writeDR", "waitBSY", "csHigh"} /\ obs.txe = "set")
    /\ (pc \in {"waitTXE", "csLow", "writeDR"} => obs.dr = 0)
    /\ (pc \in {"waitBSY", "csHigh"} => obs.dr = 1 /\ chip_select = 0)
    /\ \A k \in 1..Len(bus) : bus[k].cs = 0
    /\ (pc = "csHigh" => obs.bsy = "clear" /\ BSY = 0)
    /\ (pc = "idle" /\ obs.dr # 0 => obs.dr = 1 /\ obs.bsy = "clear")
    /\ (~InSendByte => chip_select = 1)

\* C10 witness: a second LCD_SendByte call of LCD_ClearRow has returned:
\* one write, made with chip-select low, chip-select high again
C10_Witness ==
    /\ pc = "idle" /\ call.fn = "LCD_ClearRow"
    /\ Len(bus) = 2 /\ bus[2].cs = 0
    /\ obs.dr = 1 /\ obs.bsy = "clear" /\ chip_select = 1

\* the level LCD_SendCommand (0) / LCD_SendData (1) writes to the mode line
ModeOf(via) == IF via = "LCD_SendCommand" THEN 0 ELSE 1

\* the LCD_SendByte call in progress, while it has not yet written SPI2->DR
InFlight ==
    IF pc \in {"waitTXE", "csLow", "writeDR"}
    THEN <<[dc |-> ModeOf(obs.via), byte |-> sending]>>
    ELSE <<>>

\* the pin writes of the calls that put the bytes b on the bus
RECURSIVE FramedPins(_)
FramedPins(b) ==
    IF b = <<>> THEN <<>>
    ELSE FramedPins(SubSeq(b, 1, Len(b) - 1))
            \o <<(<<"mode_select", b[Len(b)].dc>>), (<<"chip_select", 0>>),
                 (<<"chip_select", 1>>)>>

\* C11: in every LCD_SendCommand call the mode line is low and in every
\* LCD_SendData call it is high from before chip-select goes low until the
\* call returns, in particular at the write to the data register and when
\* the display latches the byte; every byte on the bus was put there by one
\* of the two, in the order the driver function calls them, and carries
\* the mode of its call.
C11_Framing ==
    /\ (InSendByte =>
            /\ obs.via \in {"LCD_SendCommand", "LCD_SendData"}
            /\ mode_select = ModeOf(obs.via))
    /\ (chip_select = 0 => InSendByte /\ mode_select = ModeOf(obs.via))
    /\ (pc \in {"waitBSY", "csHigh"} => bus[Len(bus)].dc = ModeOf(obs.via))
    /\ (call.fn # "none" =>
            [k \in 1..Len(bus) |-> [dc |-> bus[k].dc, byte |-> bus[k].byte]]
                \o InFlight \o pending = CallsOf(Run(call)))
    /\ (pc = "idle" =>
            /\ gpio = FramedPins(bus)
            /\ Len(writes) = Len(SelectSeq(bus, IsData))
            /\ \A k \in 1..Len(writes) : writes[k][3] = SelectSeq(bus, IsData)[k].byte)

\* C11 witness: LCD_ClearRow(5, 83) is through: two commands then one data
\* byte were sent, the mode line went low, low, high, the display stored
\* the data byte
C11_Witness ==
    /\ pc = "idle" /\ pending = <<>> /\ call = [fn |-> "LCD_ClearRow", a |-> <<5, 83>>]
    /\ bus = <<Cmd(64 + 5), Cmd(128 + 83), Dat(0)>>
    /\ mode_select = 1
    /\ writes = <<(<<5, 83, 0>>)>>

---------------------------------------------------------------------------
(* Claims about the display setup (Spec) *)

\* C12: the first six bytes LCD_Setup puts on the bus are commands (mode
\* line low): the extended-instruction-set select byte, 0xBF, 0x04, 0x14,
\* 0x20, 0x0C in this order; no data byte precedes the sixth command; they
\* are followed by one LCD_ClearDisplay sequence (commands 0x80, 0x40, then
\* 504 data bytes 0x00) and nothing else.
C12_Startup ==
    Returned("LCD_Setup") =>
        /\ Len(bus) = 6 + 2 + 504
        /\ SubSeq(bus, 1, 6) = <<Cmd(COMMAND_EXTENDED_INSTRUCTION), Cmd(191), Cmd(4),
                                 Cmd(20), Cmd(32), Cmd(12)>>
        /\ \A k \in 1..6 : bus[k].dc = 0
        /\ bus[7] = Cmd(128)
        /\ bus[8] = Cmd(64)
        /\ \A k \in 9..Len(bus) : bus[k] = Dat(0)

\* C12 witness: LCD_Setup returned: 512 bytes sent, the display back in the
\* basic instruction set with all 504 cells written and the address
\* counters at the origin again
C12_Witness ==
    /\ Returned("LCD_Setup") /\ Len(bus) = 512
    /\ Len(writes) = 504 /\ lcdH = 0 /\ lcdX = 0 /\ lcdY = 0

---------------------------------------------------------------------------
(* Claims about blocking and termination (SpecStall) *)

\* C17: as long as the peripheral does not stop (it eventually sets TXE and
\* eventually clears BSY) every LCD_SendByte call returns, and so does the
\* driver function making the calls, which has finitely many to make; on a
\* peripheral that has stopped with TXE clear a call waiting for TXE waits
\* for ever, writes no byte and never drives chip-select low; on one that
\* has stopped with BSY set a call waiting for BSY waits for ever: there is
\* no timeout and no retry.
C17_Blocking ==
    /\ InSendByte ~> (pc = "idle" \/ stalled)
    /\ (pending # <<>>) ~> ((pc = "idle" /\ pending = <<>>) \/ stalled)
    /\ []((stalled /\ pc = "waitTXE" /\ TXE = 0)
            => [](pc = "waitTXE" /\ obs.dr = 0 /\ chip_select = 1))
    /\ []((stalled /\ pc = "waitBSY" /\ BSY = 1) => [](pc = "waitBSY"))

\* C17 witness: the peripheral has stopped with TXE clear while the second
\* LCD_SendByte call of a driver function waits for TXE
C17_Witness ==
    /\ stalled /\ pc = "waitTXE" /\ TXE = 0
    /\ Len(bus) = 1 /\ obs.dr = 0 /\ chip_select = 1

====
